---------------------------- MODULE Spec2Model ----------------------------
(***************************************************************************)
(* Behaviour-tree engine of ulfben/behavior_trees (behavior-tree.hpp).     *)
(*                                                                         *)
(* A tree is an arena of nodes (node id -> node record); every entity owns *)
(* its own bt_mem array.  One action, Tick(e), is one call of              *)
(* EntityBrain::tick with a Context whose self is entity e.  The tick is   *)
(* evaluated by the operators below exactly as the C++ evaluates it:       *)
(* recursion over the children, early returns, the slot read and written   *)
(* through the reference `i`.                                              *)
(*                                                                         *)
(* What a leaf function returns is an input of the tick: `in` maps every   *)
(* leaf to the Status its function yields when it is called.               *)
(*                                                                         *)
(* ctx.trace is the observation log of one tick: one event [node, status]  *)
(* per node evaluation, appended when the evaluation returns.              *)
(*                                                                         *)
(* The leaves of game-ai.hpp read distances and a random number; these are *)
(* inputs too: in[leaf] is what the leaf observes ("near"/"far", ...).     *)
(* hunger is kept as the side of the two thresholds it is on: "low" is     *)
(* hunger < 0.05, "high" is hunger > 0.95, "mid" is between.  Position,    *)
(* velocity and acceleration (steering) are not part of the model.         *)
(***************************************************************************)
EXTENDS Integers, Sequences, FiniteSets, TLC

\* ------------------------------------------------------------------ bounds
NumEntities == 2
MaxChildren == 3
MaxTicks == 3
NumSoloEntities == 1
MaxMainTicks == 5

\* ------------------------------------------------------- program constants
NumSlots == 8
NumWaypoints == 4

Success == "Success"
Failure == "Failure"
Running == "Running"
Status == {Success, Failure, Running}

Entities == 1..NumEntities

\* The entities of a specification about the ticks of one entity at a time.
SoloEntities == 1..NumSoloEntities

VARIABLES tree, root, entities, world, last, prev, ticks, run

vars == <<tree, root, entities, world, last, prev, ticks, run>>

\* --------------------------------------------------------------- the nodes
\* Leaf{fn}
Leaf(fn) == [kind |-> "Leaf", children |-> <<>>, mem_slot |-> 0, fn |-> fn]

\* A leaf whose function is not given: what it returns is an input.
LeafNode == Leaf("Input")

\* A composite or decorator node: its kind, its children and its mem_slot.
Node(kind, children, slot) == [kind |-> kind, children |-> children, mem_slot |-> slot]

Composite(kind, n, slot) ==
    [kind |-> kind, children |-> [k \in 1..n |-> k], mem_slot |-> slot]

\* A composite (node 0) over n leaves (nodes 1..n).
FlatTree(kind, n, slot) ==
    [id \in 0..n |-> IF id = 0 THEN Composite(kind, n, slot) ELSE LeafNode]

\* RepeatForever (node 0) over a MemorySequence (node 1) over n leaves
\* (nodes 2..n+1): the shape of patrolLoop{&patrolSeq}.
LoopTree(n, slot) ==
    [id \in 0..(n + 1) |->
        IF id = 0 THEN [kind |-> "RepeatForever", children |-> <<1>>, mem_slot |-> 0]
        ELSE IF id = 1
             THEN [kind |-> "MemorySequence", children |-> [k \in 1..n |-> k + 1],
                   mem_slot |-> slot]
        ELSE LeafNode]

SlotChoices == {0, NumSlots - 1}

SequenceTrees == {FlatTree("Sequence", n, 0) : n \in 0..MaxChildren}

SelectorTrees == {FlatTree("Selector", n, 0) : n \in 0..MaxChildren}

MemorySequenceTrees ==
    {FlatTree("MemorySequence", n, s) : n \in 0..MaxChildren, s \in SlotChoices}

RepeatForeverTrees ==
    {FlatTree("RepeatForever", 1, 0)} \cup {LoopTree(n, 0) : n \in 0..MaxChildren}

Leaves(t) == {id \in DOMAIN t : t[id].kind = "Leaf"}

\* What a leaf function can observe when it is called.
LeafInputs(fn) ==
    CASE fn = "Input" -> Status
      [] fn = "ThreatNearby" -> {"near", "far"}
      [] fn = "MoveToCorner" -> {"arrived", "away"}
      [] fn = "DoSeekFood" -> {"away", "low", "mid"}
      [] OTHER -> {"none"}

RECURSIVE InputsOver(_, _)
InputsOver(t, ls) ==
    IF ls = {}
    THEN {[l \in {} |-> "none"]}
    ELSE LET l == CHOOSE x \in ls : TRUE
         IN  {f @@ (l :> v) : f \in InputsOver(t, ls \ {l}), v \in LeafInputs(t[l].fn)}

Inputs(t) ==
    IF \A l \in Leaves(t) : t[l].fn = "Input"
    THEN [Leaves(t) -> Status]
    ELSE InputsOver(t, Leaves(t))

\* ------------------------------------------------------------ the entities
EntityWith(w) ==
    [waypoint_index |-> w,
     bt_mem |-> [s \in 0..(NumSlots - 1) |-> 0],
     hunger |-> "low",
     isHungry |-> FALSE,
     debug_state |-> "None"]

Entity == EntityWith(0)

World == [wolf_active |-> TRUE]

Context(e) == [self |-> e, world |-> world, trace |-> <<>>]

\* ---------------------------------------------------------------- the tick
RECURSIVE NodeTick(_, _, _, _)
RECURSIVE SequenceLoop(_, _, _, _, _)
RECURSIVE SelectorLoop(_, _, _, _, _)
RECURSIVE MemorySequenceLoop(_, _, _, _)
RECURSIVE MemorySequenceLoopWith(_, _, _, _, _)
RECURSIVE SequenceLoopWith(_, _, _, _, _, _)
RECURSIVE SelectorLoopSkipSuccess(_, _, _, _, _)

Return(s, ctx) == [status |-> s, ctx |-> ctx]

\* ---------------------------------------------- leaf functions (game-ai.hpp)
ThreatNearby(ctx, obs) ==
    IF ~ctx.world.wolf_active THEN Return(Failure, ctx)
    ELSE Return(IF obs = "near" THEN Success ELSE Failure, ctx)

CheckHunger(ctx, obs) ==
    LET h == ctx.self.hunger
        raised == IF ~ctx.self.isHungry /\ h = "high" THEN TRUE ELSE ctx.self.isHungry
        hungry == IF raised /\ h = "low" THEN FALSE ELSE raised
    IN  Return(IF hungry THEN Success ELSE Failure, [ctx EXCEPT !.self.isHungry = hungry])

DoFlee(ctx, obs) == Return(Running, [ctx EXCEPT !.self.debug_state = "FLEE"])

MoveToCorner(ctx, obs) ==
    Return(IF obs = "arrived" THEN Success ELSE Running,
           [ctx EXCEPT !.self.debug_state = "PATROL"])

\* AdvanceCorner without the modulo.
AdvanceCorner_NoWrap(ctx, obs) ==
    Return(Success, [ctx EXCEPT !.self.waypoint_index = ctx.self.waypoint_index + 1])

AdvanceCorner(ctx, obs) ==
    Return(Success,
           [ctx EXCEPT !.self.waypoint_index = (ctx.self.waypoint_index + 1) % NumWaypoints])

DoSeekFood(ctx, obs) ==
    LET seeking == [ctx EXCEPT !.self.debug_state = "SEEK FOOD"]
    IN  IF obs # "away"
        THEN Return(Success, [seeking EXCEPT !.self.hunger = obs, !.self.isHungry = FALSE])
        ELSE Return(Running, seeking)

\* main.cpp: AlwaysRunning.
AlwaysRunning(ctx, obs) == Return(Running, ctx)

\* Leaf::tick: return fn(ctx, dt)
LeafTick(t, n, ctx, in) ==
    CASE t[n].fn = "Input" -> Return(in[n], ctx)
      [] t[n].fn = "ThreatNearby" -> ThreatNearby(ctx, in[n])
      [] t[n].fn = "CheckHunger" -> CheckHunger(ctx, in[n])
      [] t[n].fn = "DoFlee" -> DoFlee(ctx, in[n])
      [] t[n].fn = "MoveToCorner" -> MoveToCorner(ctx, in[n])
      [] t[n].fn = "AdvanceCorner" -> AdvanceCorner(ctx, in[n])
      [] t[n].fn = "DoSeekFood" -> DoSeekFood(ctx, in[n])
      [] t[n].fn = "AlwaysRunning" -> AlwaysRunning(ctx, in[n])

\* Sequence::tick, the range-for from child k on (k = 1 is the first child).
SequenceLoop(t, n, k, ctx, in) ==
    IF k > Len(t[n].children)
    THEN Return(Success, ctx)
    ELSE LET r == NodeTick(t, t[n].children[k], ctx, in)
         IN  IF r.status = Running THEN Return(Running, r.ctx)
             ELSE IF r.status = Failure THEN Return(Failure, r.ctx)
             ELSE SequenceLoop(t, n, k + 1, r.ctx, in)

\* Variants of the Sequence loop with one return changed:
\*   "skipfail" - a Failure does not leave the loop
\*   "runok"    - a Running child makes the loop return Success
SequenceLoopWith(t, n, k, ctx, in, bug) ==
    IF k > Len(t[n].children)
    THEN Return(Success, ctx)
    ELSE LET r == NodeTick(t, t[n].children[k], ctx, in)
         IN  IF r.status = Running
             THEN Return(IF bug = "runok" THEN Success ELSE Running, r.ctx)
             ELSE IF r.status = Failure /\ bug # "skipfail" THEN Return(Failure, r.ctx)
             ELSE SequenceLoopWith(t, n, k + 1, r.ctx, in, bug)

SequenceTick_SkipFailure(t, n, ctx, in) == SequenceLoopWith(t, n, 1, ctx, in, "skipfail")

SequenceTick_RunningIsSuccess(t, n, ctx, in) == SequenceLoopWith(t, n, 1, ctx, in, "runok")

\* A Sequence that keeps its position in bt_mem[mem_slot], as MemorySequence does.
SequenceTick_Resuming(t, n, ctx, in) == MemorySequenceLoop(t, n, ctx, in)

SequenceTick(t, n, ctx, in) == SequenceLoop(t, n, 1, ctx, in)

\* Selector::tick, the range-for from child k on.
SelectorLoop(t, n, k, ctx, in) ==
    IF k > Len(t[n].children)
    THEN Return(Failure, ctx)
    ELSE LET r == NodeTick(t, t[n].children[k], ctx, in)
         IN  IF r.status = Running THEN Return(Running, r.ctx)
             ELSE IF r.status = Success THEN Return(Success, r.ctx)
             ELSE SelectorLoop(t, n, k + 1, r.ctx, in)

\* Variant of the Selector loop: a Success does not leave the loop.
SelectorLoopSkipSuccess(t, n, k, ctx, in) ==
    IF k > Len(t[n].children)
    THEN Return(Failure, ctx)
    ELSE LET r == NodeTick(t, t[n].children[k], ctx, in)
         IN  IF r.status = Running THEN Return(Running, r.ctx)
             ELSE SelectorLoopSkipSuccess(t, n, k + 1, r.ctx, in)

SelectorTick_SkipSuccess(t, n, ctx, in) == SelectorLoopSkipSuccess(t, n, 1, ctx, in)

\* A Selector with the body of Sequence::tick.
SelectorTick_AsSequence(t, n, ctx, in) == SequenceLoop(t, n, 1, ctx, in)

SelectorTick(t, n, ctx, in) == SelectorLoop(t, n, 1, ctx, in)

SetSlot(ctx, slot, v) == [ctx EXCEPT !.self.bt_mem[slot] = v]

\* MemorySequence::tick, the while loop.  `i` is a reference to
\* ctx.self.bt_mem[mem_slot]: every read and write goes to the slot itself.
\* children[i] is 0-based in the source, children[i + 1] here.
MemorySequenceLoop(t, n, ctx, in) ==
    LET slot == t[n].mem_slot
        i == ctx.self.bt_mem[slot]
    IN  IF i < Len(t[n].children)
        THEN LET r == NodeTick(t, t[n].children[i + 1], ctx, in)
             IN  IF r.status = Running THEN Return(Running, r.ctx)
                 ELSE IF r.status = Failure
                      THEN Return(Failure, SetSlot(r.ctx, slot, 0))
                 ELSE MemorySequenceLoop(
                          t, n, SetSlot(r.ctx, slot, r.ctx.self.bt_mem[slot] + 1), in)
        ELSE Return(Success, SetSlot(ctx, slot, 0))

\* Variants of the while loop with one statement changed:
\*   "forget"  - Running also writes i = 0
\*   "nofail"  - Failure returns without i = 0
\*   "nodone"  - the loop's exit returns without i = 0
MemorySequenceLoopWith(t, n, ctx, in, bug) ==
    LET slot == t[n].mem_slot
        i == ctx.self.bt_mem[slot]
    IN  IF i < Len(t[n].children)
        THEN LET r == NodeTick(t, t[n].children[i + 1], ctx, in)
             IN  IF r.status = Running
                 THEN Return(Running, IF bug = "forget" THEN SetSlot(r.ctx, slot, 0) ELSE r.ctx)
                 ELSE IF r.status = Failure
                      THEN Return(Failure, IF bug = "nofail" THEN r.ctx ELSE SetSlot(r.ctx, slot, 0))
                 ELSE MemorySequenceLoopWith(
                          t, n, SetSlot(r.ctx, slot, r.ctx.self.bt_mem[slot] + 1), in, bug)
        ELSE Return(Success, IF bug = "nodone" THEN ctx ELSE SetSlot(ctx, slot, 0))

MemorySequenceTick_Forgetful(t, n, ctx, in) == MemorySequenceLoopWith(t, n, ctx, in, "forget")

MemorySequenceTick_KeepOnFailure(t, n, ctx, in) == MemorySequenceLoopWith(t, n, ctx, in, "nofail")

MemorySequenceTick_KeepOnSuccess(t, n, ctx, in) == MemorySequenceLoopWith(t, n, ctx, in, "nodone")

\* A MemorySequence that ticks one child per call: after a child's Success
\* it advances the slot and, unless that was the last child, returns Running.
MemorySequenceTick_OneChildPerTick(t, n, ctx, in) ==
    LET slot == t[n].mem_slot
        i == ctx.self.bt_mem[slot]
    IN  IF i < Len(t[n].children)
        THEN LET r == NodeTick(t, t[n].children[i + 1], ctx, in)
             IN  IF r.status = Running THEN Return(Running, r.ctx)
                 ELSE IF r.status = Failure
                      THEN Return(Failure, SetSlot(r.ctx, slot, 0))
                 ELSE IF i + 1 < Len(t[n].children)
                      THEN Return(Running, SetSlot(r.ctx, slot, i + 1))
                 ELSE Return(Success, SetSlot(r.ctx, slot, 0))
        ELSE Return(Success, SetSlot(ctx, slot, 0))

\* A MemorySequence that keeps its position in slot 0 whatever its mem_slot is.
MemorySequenceTick_SlotZero(t, n, ctx, in) ==
    MemorySequenceLoop([t EXCEPT ![n].mem_slot = 0], n, ctx, in)

MemorySequenceTick(t, n, ctx, in) == MemorySequenceLoop(t, n, ctx, in)

\* A RepeatForever that returns what its child returned.
RepeatForeverTick_PassThrough(t, n, ctx, in) ==
    LET r == NodeTick(t, t[n].children[1], ctx, in)
    IN  Return(r.status, r.ctx)

\* A RepeatForever that ticks its child again in the same call when the child
\* returned Success.
RepeatForeverTick_Again(t, n, ctx, in) ==
    LET r == NodeTick(t, t[n].children[1], ctx, in)
        q == IF r.status = Success THEN NodeTick(t, t[n].children[1], r.ctx, in) ELSE r
    IN  Return(Running, q.ctx)

\* RepeatForever::tick: the child's Status is ignored.
RepeatForeverTick(t, n, ctx, in) ==
    LET r == NodeTick(t, t[n].children[1], ctx, in)
    IN  Return(Running, r.ctx)

\* Node::tick, the virtual call; the event is logged when the call returns.
NodeTick(t, n, ctx, in) ==
    LET r == CASE t[n].kind = "Sequence" -> SequenceTick(t, n, ctx, in)
               [] t[n].kind = "Selector" -> SelectorTick(t, n, ctx, in)
               [] t[n].kind = "MemorySequence" -> MemorySequenceTick(t, n, ctx, in)
               [] t[n].kind = "RepeatForever" -> RepeatForeverTick(t, n, ctx, in)
               [] t[n].kind = "Leaf" -> LeafTick(t, n, ctx, in)
    IN  Return(r.status,
               [r.ctx EXCEPT !.trace = Append(@, [node |-> n, status |-> r.status])])

\* EntityBrain::root of a brain constructed without a root.
nullptr == -1

\* What a tick of a brain without a root ends in: assert(root) ends the
\* process (where the assert is compiled out, the virtual call through the
\* null pointer faults); nothing is returned and nothing was written.
Aborted == "Aborted"

\* A brain whose tick returns Failure when it has no root.
EntityBrainTick_NoAssert(t, rt, ctx, in) ==
    IF rt = nullptr THEN Return(Failure, ctx) ELSE NodeTick(t, rt, ctx, in)

\* A brain that, after the root returned, clears the slot of every
\* MemorySequence the tick did not reach.
EntityBrainTick_ResetUnreached(t, rt, ctx, in) ==
    LET r == NodeTick(t, rt, ctx, in)
        reached == {r.ctx.trace[j].node : j \in 1..Len(r.ctx.trace)}
        cleared == {t[m].mem_slot : m \in {x \in DOMAIN t : t[x].kind = "MemorySequence"} \ reached}
    IN  Return(r.status,
               [r.ctx EXCEPT !.self.bt_mem = [sl \in DOMAIN @ |-> IF sl \in cleared THEN 0 ELSE @[sl]]])

\* EntityBrain::tick: assert(root); return root->tick(ctx, dt).
EntityBrainTick(t, rt, ctx, in) ==
    IF rt = nullptr THEN Return(Aborted, ctx) ELSE NodeTick(t, rt, ctx, in)

\* The process has ended in a failed assert: no entity is ticked any more.
ProcessAborted == \E e \in DOMAIN last : last[e].status = Aborted

\* ----------------------------------------------------------- state machine
NoTick == [status |-> "None", trace |-> <<>>]

\* run[e] is the brain tick of entity e that is in progress, for the
\* specification that takes a tick one node evaluation at a time: the entity
\* as the tick found it, what the leaves have observed, the call stack (the
\* node of each active tick() call and the child it is at), the Status the
\* last finished call returned, and the calls finished so far.
Idle ==
    [phase |-> "idle", start |-> Entity, in |-> <<>>, stack |-> <<>>,
     ret |-> "None", trace |-> <<>>, overlapped |-> FALSE]

\* The state after construction: a tree built from one of `trees`, the
\* brain's root, and entities that have not been ticked.
InitWith(trees) ==
    /\ tree \in trees
    /\ root = 0
    /\ entities = [e \in Entities |-> Entity]
    /\ world = World
    /\ last = [e \in Entities |-> NoTick]
    /\ prev = [e \in Entities |-> NoTick]
    /\ run = [e \in Entities |-> Idle]
    /\ ticks = 0

InitSequence == InitWith(SequenceTrees)

InitSelector == InitWith(SelectorTrees)

InitMemorySequence == InitWith(MemorySequenceTrees)

InitRepeatForever == InitWith(RepeatForeverTrees)

\* A tick whose bt_mem is one array shared by all entities (as if the slots
\* lived in the tree and not in the entity).
Tick_SharedMemory(e) ==
    /\ ticks < MaxTicks
    /\ \E in \in Inputs(tree) :
          LET r == EntityBrainTick(tree, root, Context(entities[e]), in)
          IN  /\ entities' = [b \in Entities |-> r.ctx.self]
              /\ last' = [last EXCEPT ![e] = [status |-> r.status, trace |-> r.ctx.trace]]
              /\ prev' = [prev EXCEPT ![e] = last[e]]
    /\ ticks' = ticks + 1
    /\ UNCHANGED <<tree, root, world, run>>

\* A tick that also keeps each MemorySequence's position in the node: the
\* node's mem_slot field is overwritten with the index the slot holds.
Tick_StateInNode(e) ==
    /\ ticks < MaxTicks
    /\ \E in \in Inputs(tree) :
          LET r == EntityBrainTick(tree, root, Context(entities[e]), in)
          IN  /\ entities' = [entities EXCEPT ![e] = r.ctx.self]
              /\ last' = [last EXCEPT ![e] = [status |-> r.status, trace |-> r.ctx.trace]]
              /\ prev' = [prev EXCEPT ![e] = last[e]]
              /\ tree' = [n \in DOMAIN tree |->
                             IF tree[n].kind = "MemorySequence"
                             THEN [tree[n] EXCEPT !.mem_slot = r.ctx.self.bt_mem[tree[n].mem_slot]]
                             ELSE tree[n]]
    /\ ticks' = ticks + 1
    /\ UNCHANGED <<root, world, run>>

\* One brain tick for entity e: Context ctx{e, world}; tree.brain.tick(ctx, dt).
\* last[e] is the outcome of e's latest tick, prev[e] of the one before.
Tick(e) ==
    /\ ticks < MaxTicks
    /\ ~ProcessAborted
    /\ \E in \in Inputs(tree) :
          LET r == EntityBrainTick(tree, root, Context(entities[e]), in)
          IN  /\ entities' = [entities EXCEPT ![e] = r.ctx.self]
              /\ last' = [last EXCEPT ![e] = [status |-> r.status, trace |-> r.ctx.trace]]
              /\ prev' = [prev EXCEPT ![e] = last[e]]
    /\ ticks' = ticks + 1
    /\ UNCHANGED <<tree, root, world, run>>

Next == \E e \in Entities : Tick(e)

SpecSequence == InitSequence /\ [][Next]_vars

SpecSelector == InitSelector /\ [][Next]_vars

SpecMemorySequence == InitMemorySequence /\ [][Next]_vars

SpecRepeatForever == InitRepeatForever /\ [][Next]_vars

\* Brains with and without a root: EntityBrain brain{&root} and EntityBrain
\* brain{} over the Selector trees.
InitBrain ==
    /\ tree \in SelectorTrees
    /\ root \in {0, nullptr}
    /\ entities = [e \in Entities |-> Entity]
    /\ world = World
    /\ last = [e \in Entities |-> NoTick]
    /\ prev = [e \in Entities |-> NoTick]
    /\ run = [e \in Entities |-> Idle]
    /\ ticks = 0

SpecBrain == InitBrain /\ [][Next]_vars

\* A tree with every kind of node: a Sequence or Selector root over a leaf
\* and a RepeatForever, which wraps a MemorySequence with slot `slot` over n
\* leaves.  The leaf decides whether the tick reaches the MemorySequence.
GuardedTree(kind, n, slot) ==
    [id \in 0..(n + 3) |->
        CASE id = 0 -> Node(kind, <<1, 2>>, 0)
          [] id = 1 -> LeafNode
          [] id = 2 -> Node("RepeatForever", <<3>>, 0)
          [] id = 3 -> Node("MemorySequence", [k \in 1..n |-> k + 3], slot)
          [] OTHER -> LeafNode]

GuardedTrees ==
    {GuardedTree(kind, n, slot) :
        kind \in {"Sequence", "Selector"}, n \in 1..(MaxChildren - 1), slot \in SlotChoices}

InitGuarded ==
    /\ tree \in GuardedTrees
    /\ root = 0
    /\ entities = [e \in SoloEntities |-> Entity]
    /\ world = World
    /\ last = [e \in SoloEntities |-> NoTick]
    /\ prev = [e \in SoloEntities |-> NoTick]
    /\ run = [e \in SoloEntities |-> Idle]
    /\ ticks = 0

NextGuarded == \E e \in SoloEntities : Tick(e)

SpecGuarded == InitGuarded /\ [][NextGuarded]_vars

\* Leaves that never return Running: conditions and instant actions.
NoRunningInputs(t) == [Leaves(t) -> {Success, Failure}]

TickNoRunning(e) ==
    /\ ticks < MaxTicks
    /\ \E in \in NoRunningInputs(tree) :
          LET r == EntityBrainTick(tree, root, Context(entities[e]), in)
          IN  /\ entities' = [entities EXCEPT ![e] = r.ctx.self]
              /\ last' = [last EXCEPT ![e] = [status |-> r.status, trace |-> r.ctx.trace]]
              /\ prev' = [prev EXCEPT ![e] = last[e]]
    /\ ticks' = ticks + 1
    /\ UNCHANGED <<tree, root, world, run>>

NextNoRunning == \E e \in Entities : TickNoRunning(e)

SpecNoRunning == InitMemorySequence /\ [][NextNoRunning]_vars

\* ------------------------------------------------- the demo (game-ai.hpp)
\* The members of DemoTree, as node ids.
demoRoot == 0
fleeSeq == 1
threat == 2
flee == 3
foodSeq == 4
hungry == 5
seekFood == 6
patrolLoop == 7
patrolSeq == 8
moveToCorner == 9
advanceCorner == 10

DemoTree ==
    (demoRoot :> Node("Selector", <<fleeSeq, foodSeq, patrolLoop>>, 0))
    @@ (fleeSeq :> Node("Sequence", <<threat, flee>>, 0))
    @@ (threat :> Leaf("ThreatNearby"))
    @@ (flee :> Leaf("DoFlee"))
    @@ (foodSeq :> Node("Sequence", <<hungry, seekFood>>, 0))
    @@ (hungry :> Leaf("CheckHunger"))
    @@ (seekFood :> Leaf("DoSeekFood"))
    @@ (patrolLoop :> Node("RepeatForever", <<patrolSeq>>, 0))
    @@ (patrolSeq :> Node("MemorySequence", <<moveToCorner, advanceCorner>>, 0))
    @@ (moveToCorner :> Leaf("MoveToCorner"))
    @@ (advanceCorner :> Leaf("AdvanceCorner"))

\* Entity::waypoint_index = GetRandomValue(0, 3): the two ends of the range;
\* the values between are reached by AdvanceCorner.  Entity::hunger starts
\* anywhere in [0, 1): it starts "low" and Update raises it before any tick.
InitialWaypoints == {0, NumWaypoints - 1}

InitDemo ==
    /\ tree = DemoTree
    /\ root = demoRoot
    /\ entities \in [SoloEntities -> {EntityWith(w) : w \in InitialWaypoints}]
    /\ world = World
    /\ last = [e \in SoloEntities |-> NoTick]
    /\ prev = [e \in SoloEntities |-> NoTick]
    /\ run = [e \in SoloEntities |-> Idle]
    /\ ticks = 0

HungerLevels == <<"low", "mid", "high">>

HungerRank(h) == CHOOSE j \in 1..Len(HungerLevels) : HungerLevels[j] = h

\* Entity::update: hunger = clamp(hunger + hunger_per_second * dt, 0, 1)
Update(e) ==
    /\ \E j \in 1..Len(HungerLevels) :
          /\ j > HungerRank(entities[e].hunger)
          /\ entities' = [entities EXCEPT ![e].hunger = HungerLevels[j]]
    /\ UNCHANGED <<tree, root, world, last, prev, ticks, run>>

\* if(IsKeyPressed(KEY_F)) world.wolfActive = !world.wolfActive
ToggleWolf ==
    /\ world' = [world EXCEPT !.wolf_active = ~@]
    /\ UNCHANGED <<tree, root, entities, last, prev, ticks, run>>

NextDemo ==
    \/ \E e \in SoloEntities : Tick(e)
    \/ \E e \in SoloEntities : Update(e)
    \/ ToggleWolf

SpecDemo == InitDemo /\ [][NextDemo]_vars

\* --------------------------------- a tick, one node evaluation at a time
\* The ticks of different entities, interleaved: each step is one activation
\* of one tick() call of one entity's tick in progress, entering the node or
\* resuming it after a child returned.  Reads and writes of ctx.self go to
\* the entity itself at the step where the code makes them.

\* What a leaf is taken to have observed before it ran.
NoInputs(t) ==
    [l \in Leaves(t) |-> IF t[l].fn = "Input" THEN Success ELSE "none"]

\* All ticks keep their MemorySequence positions in the first entity.
MemOf_Shared(e) == 1

\* The entity whose bt_mem a MemorySequence of e's tick uses: ctx.self.
MemOf(e) == e

Frame(n) == [node |-> n, k |-> 0]

Top(e) == run[e].stack[Len(run[e].stack)]

Front(q) == SubSeq(q, 1, Len(q) - 1)

\* The call on top of e's stack returns s to its caller.
ReturnFrom(e, s, ents) ==
    LET rest == Front(run[e].stack)
    IN  /\ run' = [run EXCEPT ![e] =
                      [@ EXCEPT !.stack = rest,
                                !.ret = s,
                                !.trace = Append(@, [node |-> Top(e).node, status |-> s]),
                                !.phase = IF rest = <<>> THEN "done" ELSE "busy"]]
        /\ entities' = ents

\* The call on top of e's stack calls its child number k (from 1).
Call(e, k, ents) ==
    LET top == Top(e)
    IN  /\ run' = [run EXCEPT ![e] =
                      [@ EXCEPT !.stack = Append(Front(@), [top EXCEPT !.k = k])
                                             \o <<Frame(tree[top.node].children[k])>>,
                                !.ret = "None"]]
        /\ entities' = ents

WriteSlot(ents, e, slot, v) == [ents EXCEPT ![MemOf(e)].bt_mem[slot] = v]

\* update_entity: Context ctx{e, world}; tree.brain.tick(ctx, dt) is called.
Begin(e) ==
    /\ ticks < MaxTicks
    /\ run[e].phase # "busy"
    /\ run' = [run EXCEPT ![e] =
                  [phase |-> "busy", start |-> entities[e], in |-> NoInputs(tree),
                   stack |-> <<Frame(root)>>, ret |-> "None", trace |-> <<>>,
                   overlapped |-> \E b \in DOMAIN run : b # e /\ run[b].trace # <<>>
                                                       /\ run[b].phase = "busy"]]
    /\ ticks' = ticks + 1
    /\ UNCHANGED <<tree, root, entities, world, last, prev>>

\* Leaf::tick: fn(ctx, dt) reads the world and the entity and writes the entity.
StepLeaf(e) ==
    /\ run[e].phase = "busy"
    /\ tree[Top(e).node].kind = "Leaf"
    /\ \E obs \in LeafInputs(tree[Top(e).node].fn) :
          LET n == Top(e).node
              in == [run[e].in EXCEPT ![n] = obs]
              r == LeafTick(tree, n, Context(entities[e]), in)
              rest == Front(run[e].stack)
          IN  /\ run' = [run EXCEPT ![e] =
                            [@ EXCEPT !.in = in,
                                      !.stack = rest,
                                      !.ret = r.status,
                                      !.trace = Append(@, [node |-> n, status |-> r.status]),
                                      !.phase = IF rest = <<>> THEN "done" ELSE "busy"]]
              /\ entities' = [entities EXCEPT ![e] = r.ctx.self]
    /\ UNCHANGED <<tree, root, world, last, prev, ticks>>

\* Sequence::tick, one iteration of the for loop: the previous child's
\* Status is examined and the next child is called.
StepSequence(e) ==
    /\ run[e].phase = "busy"
    /\ tree[Top(e).node].kind = "Sequence"
    /\ LET top == Top(e)
           s == run[e].ret
       IN  IF s = Running \/ s = Failure THEN ReturnFrom(e, s, entities)
           ELSE IF top.k + 1 > Len(tree[top.node].children)
                THEN ReturnFrom(e, Success, entities)
           ELSE Call(e, top.k + 1, entities)
    /\ UNCHANGED <<tree, root, world, last, prev, ticks>>

\* Selector::tick, one iteration of the for loop.
StepSelector(e) ==
    /\ run[e].phase = "busy"
    /\ tree[Top(e).node].kind = "Selector"
    /\ LET top == Top(e)
           s == run[e].ret
       IN  IF s = Running \/ s = Success THEN ReturnFrom(e, s, entities)
           ELSE IF top.k + 1 > Len(tree[top.node].children)
                THEN ReturnFrom(e, Failure, entities)
           ELSE Call(e, top.k + 1, entities)
    /\ UNCHANGED <<tree, root, world, last, prev, ticks>>

\* MemorySequence::tick, one iteration of the while loop.  i is a reference
\* to the slot: ++i and i = 0 write the entity, and the loop condition and
\* children[i] read it.
StepMemorySequence(e) ==
    /\ run[e].phase = "busy"
    /\ tree[Top(e).node].kind = "MemorySequence"
    /\ LET top == Top(e)
           s == run[e].ret
           slot == tree[top.node].mem_slot
           ents == IF s = Success
                   THEN WriteSlot(entities, e, slot, entities[MemOf(e)].bt_mem[slot] + 1)
                   ELSE entities
           i == ents[MemOf(e)].bt_mem[slot]
       IN  IF s = Running THEN ReturnFrom(e, Running, entities)
           ELSE IF s = Failure THEN ReturnFrom(e, Failure, WriteSlot(entities, e, slot, 0))
           ELSE IF i < Len(tree[top.node].children) THEN Call(e, i + 1, ents)
           ELSE ReturnFrom(e, Success, WriteSlot(ents, e, slot, 0))
    /\ UNCHANGED <<tree, root, world, last, prev, ticks>>

\* RepeatForever::tick: the child is called, and whatever it returns the
\* decorator returns Running.
StepRepeatForever(e) ==
    /\ run[e].phase = "busy"
    /\ tree[Top(e).node].kind = "RepeatForever"
    /\ IF run[e].ret = "None" THEN Call(e, 1, entities)
       ELSE ReturnFrom(e, Running, entities)
    /\ UNCHANGED <<tree, root, world, last, prev, ticks>>

\* main: std::vector<Entity> entities(2).
NumMainEntities == 2

MainEntities == 1..NumMainEntities

\* Entity::hunger = random_range(0, 1): an entity may start hungry enough
\* for CheckHunger to set isHungry at its first tick.
InitInterleaved ==
    /\ tree = DemoTree
    /\ root = demoRoot
    /\ entities \in [MainEntities ->
                        {[EntityWith(w) EXCEPT !.hunger = h] :
                            w \in InitialWaypoints, h \in {"low", "high"}}]
    /\ world = World
    /\ last = [e \in MainEntities |-> NoTick]
    /\ prev = [e \in MainEntities |-> NoTick]
    /\ run = [e \in MainEntities |-> Idle]
    /\ ticks = 0

NextInterleaved ==
    \E e \in MainEntities :
        \/ Begin(e)
        \/ StepLeaf(e)
        \/ StepSequence(e)
        \/ StepSelector(e)
        \/ StepMemorySequence(e)
        \/ StepRepeatForever(e)

SpecInterleaved == InitInterleaved /\ [][NextInterleaved]_vars

\* ------------------------------------------- the tree of main.cpp
\* The members of main.cpp's DemoTree that its root reaches, as node ids
\* (threat, flee and fleeSeq are constructed but are in no child list).
mainRoot == 0
mainPatrolSeq == 1
mainMoveToCorner == 2
mainAdvanceCorner == 3
runForever == 4

MainTree ==
    (mainRoot :> Node("Selector", <<mainPatrolSeq>>, 0))
    @@ (mainPatrolSeq :>
            Node("MemorySequence", <<mainMoveToCorner, mainAdvanceCorner, runForever>>, 0))
    @@ (mainMoveToCorner :> Leaf("MoveToCorner"))
    @@ (mainAdvanceCorner :> Leaf("AdvanceCorner"))
    @@ (runForever :> Leaf("AlwaysRunning"))

\* main.cpp: Entity::waypoint_index = 0, wolfActive = true.
InitMain ==
    /\ tree = MainTree
    /\ root = mainRoot
    /\ entities = [e \in MainEntities |-> Entity]
    /\ world = World
    /\ last = [e \in MainEntities |-> NoTick]
    /\ prev = [e \in MainEntities |-> NoTick]
    /\ run = [e \in MainEntities |-> Idle]
    /\ ticks = 0

\* update_entity of main.cpp: Context ctx{e, world}; tree.brain.tick(ctx, dt).
\* The tree's ticks are followed for MaxMainTicks ticks, long enough for an
\* entity to arrive and be ticked again several times.
TickMain(e) ==
    /\ ticks < MaxMainTicks
    /\ \E in \in Inputs(tree) :
          LET r == EntityBrainTick(tree, root, Context(entities[e]), in)
          IN  /\ entities' = [entities EXCEPT ![e] = r.ctx.self]
              /\ last' = [last EXCEPT ![e] = [status |-> r.status, trace |-> r.ctx.trace]]
              /\ prev' = [prev EXCEPT ![e] = last[e]]
    /\ ticks' = ticks + 1
    /\ UNCHANGED <<tree, root, world, run>>

\* main's loop: the F key toggles the wolf, every entity is updated.
NextMain ==
    \/ \E e \in MainEntities : TickMain(e)
    \/ ToggleWolf

SpecMain == InitMain /\ [][NextMain]_vars

\* ------------------------------------------------- reading a tick's outcome
Range(s) == {s[j] : j \in 1..Len(s)}

NodesOfKind(kind) == {n \in DOMAIN tree : tree[n].kind = kind}

NumChildren(n) == Len(tree[n].children)

\* children[k] of the source (0-based)
Child(n, k) == tree[n].children[k + 1]

Ev(n, s) == [node |-> n, status |-> s]

Evaluated(n, tr) == \E j \in 1..Len(tr) : tr[j].node = n

StatusOf(n, tr) == LET j == CHOOSE j \in 1..Len(tr) : tr[j].node = n IN tr[j].status

IsChildEvent(n, ev) == ev.node \in Range(tree[n].children)

\* The evaluations of n's children during one tick, in the order they returned.
Kids(n, tr) == SelectSeq(tr, LAMBDA ev : IsChildEvent(n, ev))

Slot(e, n) == entities[e].bt_mem[tree[n].mem_slot]

\* kids are children first, first + 1, ... of n, each once, in that order
Consecutive(n, kids, first) ==
    \A j \in 1..Len(kids) :
        /\ first + j - 1 < NumChildren(n)
        /\ kids[j].node = Child(n, first + j - 1)

\* ------------------------------------------------------------------ claims

\* C1: a MemorySequence over [c0, c1, c2], slot 0: when a tick has c0 return
\* Success and c1 return Running, the slot holds 1 after it; the entity's
\* next tick evaluates c1 first and never c0; and c2 is evaluated only right
\* after c1 returned Success in the same tick, or as the child the previous
\* tick left Running (so never between c1's Running and c1's Success).
C1_ResumeAtRunningChild ==
    \A e \in Entities : \A n \in NodesOfKind("MemorySequence") :
        NumChildren(n) = 3 =>
            LET kl == Kids(n, last[e].trace)
                kp == Kids(n, prev[e].trace)
                SR == <<Ev(Child(n, 0), Success), Ev(Child(n, 1), Running)>>
            IN  /\ kl = SR => Slot(e, n) = 1
                /\ (kp = SR /\ Evaluated(n, last[e].trace)) =>
                      /\ kl # <<>>
                      /\ kl[1].node = Child(n, 1)
                      /\ \A j \in 1..Len(kl) : kl[j].node # Child(n, 0)
                /\ \A j \in 1..Len(kl) :
                      kl[j].node = Child(n, 2) =>
                          \/ j > 1 /\ kl[j - 1] = Ev(Child(n, 1), Success)
                          \/ j = 1 /\ kp # <<>> /\ kp[Len(kp)] = Ev(Child(n, 2), Running)

C1_Witness ==
    \E e \in Entities : \E n \in NodesOfKind("MemorySequence") :
        /\ NumChildren(n) = 3
        /\ Kids(n, prev[e].trace) = <<Ev(Child(n, 0), Success), Ev(Child(n, 1), Running)>>
        /\ Kids(n, last[e].trace) = <<Ev(Child(n, 1), Running)>>
        /\ Slot(e, n) = 1

\* C2: when a child of a MemorySequence returns Failure, the MemorySequence
\* returns Failure, that child is the last one evaluated in the call, the
\* slot is 0 afterwards, and the entity's next tick starts at child 0.
C2_FailureResetsSlot ==
    \A e \in Entities : \A n \in NodesOfKind("MemorySequence") :
        LET kl == Kids(n, last[e].trace)
            kp == Kids(n, prev[e].trace)
        IN  /\ \A j \in 1..Len(kl) :
                  kl[j].status = Failure =>
                      /\ j = Len(kl)
                      /\ StatusOf(n, last[e].trace) = Failure
                      /\ Slot(e, n) = 0
            /\ ((\E j \in 1..Len(kp) : kp[j].status = Failure) /\ Evaluated(n, last[e].trace)) =>
                  /\ kl # <<>>
                  /\ kl[1].node = Child(n, 0)

C2_Witness ==
    \E e \in Entities : \E n \in NodesOfKind("MemorySequence") :
        /\ NumChildren(n) = 3
        /\ Kids(n, prev[e].trace) = <<Ev(Child(n, 0), Success), Ev(Child(n, 1), Failure)>>
        /\ Len(Kids(n, last[e].trace)) = 3
        /\ Kids(n, last[e].trace)[1].node = Child(n, 0)

\* C3: when the last child of a MemorySequence returns Success (the loop has
\* run out of children) the MemorySequence returns Success and the slot is 0
\* afterwards; the entity's next tick starts at child 0.
C3_SuccessResetsSlot ==
    \A e \in Entities : \A n \in NodesOfKind("MemorySequence") :
        LET kl == Kids(n, last[e].trace)
            kp == Kids(n, prev[e].trace)
            Exhausted(kids) ==
                /\ kids # <<>>
                /\ kids[Len(kids)] = Ev(Child(n, NumChildren(n) - 1), Success)
        IN  /\ Exhausted(kl) =>
                  /\ StatusOf(n, last[e].trace) = Success
                  /\ Slot(e, n) = 0
            /\ (Evaluated(n, last[e].trace) /\ StatusOf(n, last[e].trace) = Success) =>
                  Slot(e, n) = 0
            /\ (Exhausted(kp) /\ Evaluated(n, last[e].trace)) =>
                  /\ kl # <<>>
                  /\ kl[1].node = Child(n, 0)

C3_Witness ==
    \E e \in Entities : \E n \in NodesOfKind("MemorySequence") :
        /\ NumChildren(n) = 3
        /\ Kids(n, prev[e].trace) =
               <<Ev(Child(n, 1), Success), Ev(Child(n, 2), Success)>>
        /\ StatusOf(n, prev[e].trace) = Success
        /\ Kids(n, last[e].trace) = <<Ev(Child(n, 0), Running)>>
        /\ Slot(e, n) = 0

\* C4: entities sharing one tree do not interfere.  A step changes the data
\* of at most one entity; an entity that was never ticked has every slot 0,
\* whatever the slots of the others are; and the first tick of an entity is
\* one of the ticks of a fresh entity: its MemorySequence starts at child 0.
Outcome(r) == [status |-> r.status, trace |-> r.ctx.trace]

Untouched(b) ==
    /\ entities'[b] = entities[b]
    /\ last'[b] = last[b]
    /\ prev'[b] = prev[b]

C4_FirstTickIsFresh(b) ==
    (prev[b] = NoTick /\ last[b] # NoTick) =>
        /\ \E in \in Inputs(tree) :
              LET r == EntityBrainTick(tree, root, Context(Entity), in)
              IN  /\ last[b] = Outcome(r)
                  /\ entities[b] = r.ctx.self
        /\ \A n \in NodesOfKind("MemorySequence") :
              (Evaluated(n, last[b].trace) /\ NumChildren(n) > 0) =>
                  Kids(n, last[b].trace)[1].node = Child(n, 0)

C4_EntitiesIndependent ==
    /\ [](\A b \in Entities : last[b] = NoTick => entities[b] = Entity)
    /\ [](\A b \in Entities : C4_FirstTickIsFresh(b))
    /\ [][\A a, b \in Entities : (a # b /\ ~Untouched(a)) => Untouched(b)]_vars

C4_Witness ==
    \E a, b \in Entities : \E n \in NodesOfKind("MemorySequence") :
        /\ a # b
        /\ NumChildren(n) = 3
        /\ Slot(a, n) = 2
        /\ prev[b] = NoTick
        /\ Kids(n, last[b].trace) = <<Ev(Child(n, 0), Running)>>
        /\ Slot(b, n) = 0

\* C5: in a Sequence tick where child k returns Failure and children
\* 0..k-1 returned Success, the Sequence returns Failure and no child after
\* k is evaluated.
C5_SequenceFailsFast ==
    \A e \in Entities : \A n \in NodesOfKind("Sequence") :
        \A k \in 0..(NumChildren(n) - 1) :
            LET kl == Kids(n, last[e].trace)
            IN  (/\ Ev(Child(n, k), Failure) \in Range(kl)
                 /\ \A i \in 0..(k - 1) : Ev(Child(n, i), Success) \in Range(kl)) =>
                    /\ StatusOf(n, last[e].trace) = Failure
                    /\ \A m \in (k + 1)..(NumChildren(n) - 1) :
                          ~Evaluated(Child(n, m), last[e].trace)

C5_Witness ==
    \E e \in Entities : \E n \in NodesOfKind("Sequence") :
        /\ NumChildren(n) = 3
        /\ Kids(n, last[e].trace) = <<Ev(Child(n, 0), Success), Ev(Child(n, 1), Failure)>>
        /\ StatusOf(n, last[e].trace) = Failure

\* C6: a Sequence returns Running at the first child that returns Running,
\* evaluates no later child, and records nothing: the entity's next tick
\* evaluates the children from child 0 again, in order.
NoMemorySequence == NodesOfKind("MemorySequence") = {}

C6_SequenceRestartsAfterRunning ==
    \A e \in Entities : \A n \in NodesOfKind("Sequence") :
        LET kl == Kids(n, last[e].trace)
            kp == Kids(n, prev[e].trace)
        IN  /\ \A k \in 0..(NumChildren(n) - 1) :
                  Ev(Child(n, k), Running) \in Range(kl) =>
                      /\ StatusOf(n, last[e].trace) = Running
                      /\ \A m \in (k + 1)..(NumChildren(n) - 1) :
                            ~Evaluated(Child(n, m), last[e].trace)
            /\ NoMemorySequence => entities[e].bt_mem = Entity.bt_mem
            /\ (/\ Evaluated(n, prev[e].trace)
                /\ StatusOf(n, prev[e].trace) = Running
                /\ Evaluated(n, last[e].trace)) =>
                    /\ kl # <<>>
                    /\ Consecutive(n, kl, 0)

C6_Witness ==
    \E e \in Entities : \E n \in NodesOfKind("Sequence") :
        /\ NumChildren(n) = 3
        /\ Kids(n, prev[e].trace) =
               <<Ev(Child(n, 0), Success), Ev(Child(n, 1), Success), Ev(Child(n, 2), Running)>>
        /\ Kids(n, last[e].trace) =
               <<Ev(Child(n, 0), Success), Ev(Child(n, 1), Running)>>

\* C7: a Sequence returns Success exactly when every child was evaluated in
\* the call and returned Success; for every vector of child outcomes its
\* result is the first outcome that is not Success, or Success if none is.
OnlyLeafChildren(n) == \A k \in 0..(NumChildren(n) - 1) : tree[Child(n, k)].kind = "Leaf"

FirstNot(v, s, otherwise) ==
    IF \E j \in 1..Len(v) : v[j] # s
    THEN v[CHOOSE j \in 1..Len(v) : v[j] # s /\ \A i \in 1..(j - 1) : v[i] = s]
    ELSE otherwise

OutcomeVector(n, in) == [j \in 1..NumChildren(n) |-> in[tree[n].children[j]]]

\* The entity states a tick can start from in this state.
Selves == {entities[e] : e \in DOMAIN entities}

C7_SequenceResult ==
    \A n \in NodesOfKind("Sequence") :
        /\ \A e \in Entities :
              Evaluated(n, last[e].trace) =>
                  (StatusOf(n, last[e].trace) = Success <=>
                      \A k \in 0..(NumChildren(n) - 1) :
                          Ev(Child(n, k), Success) \in Range(Kids(n, last[e].trace)))
        /\ OnlyLeafChildren(n) =>
              \A self \in Selves : \A in \in Inputs(tree) :
                  NodeTick(tree, n, Context(self), in).status =
                      FirstNot(OutcomeVector(n, in), Success, Success)

C7_Witness ==
    \E e \in Entities : \E n \in NodesOfKind("Sequence") :
        /\ NumChildren(n) = 3
        /\ Len(Kids(n, last[e].trace)) = 3
        /\ StatusOf(n, last[e].trace) = Success

\* C8: in a Selector tick where child k returns Success and children 0..k-1
\* returned Failure, the Selector returns Success and no child after k is
\* evaluated.
C8_SelectorSucceedsFast ==
    \A e \in Entities : \A n \in NodesOfKind("Selector") :
        \A k \in 0..(NumChildren(n) - 1) :
            LET kl == Kids(n, last[e].trace)
            IN  (/\ Ev(Child(n, k), Success) \in Range(kl)
                 /\ \A i \in 0..(k - 1) : Ev(Child(n, i), Failure) \in Range(kl)) =>
                    /\ StatusOf(n, last[e].trace) = Success
                    /\ \A m \in (k + 1)..(NumChildren(n) - 1) :
                          ~Evaluated(Child(n, m), last[e].trace)

C8_Witness ==
    \E e \in Entities : \E n \in NodesOfKind("Selector") :
        /\ NumChildren(n) = 3
        /\ Kids(n, last[e].trace) = <<Ev(Child(n, 0), Failure), Ev(Child(n, 1), Success)>>
        /\ StatusOf(n, last[e].trace) = Success

\* C9: every Selector tick evaluates children 0, 1, ... in order; it returns
\* Running at the first child that returns Running and evaluates no later
\* child; it keeps no position (the tick after a Running one starts at child
\* 0 again); and it returns Failure only when every child was evaluated and
\* returned Failure.
C9_SelectorOrderAndResult ==
    \A n \in NodesOfKind("Selector") :
        /\ \A e \in Entities :
              LET kl == Kids(n, last[e].trace)
              IN  Evaluated(n, last[e].trace) =>
                    /\ Consecutive(n, kl, 0)
                    /\ \A k \in 0..(NumChildren(n) - 1) :
                          Ev(Child(n, k), Running) \in Range(kl) =>
                              /\ StatusOf(n, last[e].trace) = Running
                              /\ \A m \in (k + 1)..(NumChildren(n) - 1) :
                                    ~Evaluated(Child(n, m), last[e].trace)
                    /\ NoMemorySequence => entities[e].bt_mem = Entity.bt_mem
                    /\ StatusOf(n, last[e].trace) = Failure =>
                          \A k \in 0..(NumChildren(n) - 1) :
                              Ev(Child(n, k), Failure) \in Range(kl)
        /\ OnlyLeafChildren(n) =>
              \A self \in Selves : \A in \in Inputs(tree) :
                  NodeTick(tree, n, Context(self), in).status =
                      FirstNot(OutcomeVector(n, in), Failure, Failure)

C9_Witness ==
    \E e \in Entities : \E n \in NodesOfKind("Selector") :
        /\ NumChildren(n) = 3
        /\ Kids(n, prev[e].trace) = <<Ev(Child(n, 0), Failure), Ev(Child(n, 1), Running)>>
        /\ Len(Kids(n, last[e].trace)) = 3
        /\ StatusOf(n, last[e].trace) = Failure

\* C10: every RepeatForever tick evaluates its child exactly once and returns
\* Running, whatever the child returned.
C10_RepeatForeverRunning ==
    \A n \in NodesOfKind("RepeatForever") :
        /\ \A e \in Entities :
              Evaluated(n, last[e].trace) =>
                  /\ StatusOf(n, last[e].trace) = Running
                  /\ Len(Kids(n, last[e].trace)) = 1
        /\ \A self \in Selves : \A in \in Inputs(tree) :
              LET r == NodeTick(tree, n, Context(self), in)
              IN  /\ r.status = Running
                  /\ Len(Kids(n, r.ctx.trace)) = 1
                  /\ OnlyLeafChildren(n) => Kids(n, r.ctx.trace)[1].status = in[Child(n, 0)]

C10_Witness ==
    \E e \in Entities : \E n \in NodesOfKind("RepeatForever") :
        /\ Kids(n, prev[e].trace) = <<Ev(Child(n, 0), Success)>>
        /\ Kids(n, last[e].trace) = <<Ev(Child(n, 0), Failure)>>
        /\ StatusOf(n, last[e].trace) = Running
        /\ StatusOf(n, prev[e].trace) = Running

\* How many times node n was evaluated in a tick with trace tr.
Count(n, tr) == Cardinality({j \in 1..Len(tr) : tr[j].node = n})

\* C11: in the demo tree waypoint_index changes only in a tick in which
\* MoveToCorner returns Success; in such a tick AdvanceCorner runs exactly
\* once and the index becomes (waypoint_index + 1) modulo the number of
\* waypoints.  Checked for every tick that can start in a reachable state
\* (with or without threat or hunger) and for every step of the demo.
C11_TickAdvancesOnArrival(self) ==
    \A in \in Inputs(tree) :
        LET r == EntityBrainTick(tree, root, Context(self), in)
            w == self.waypoint_index
        IN  IF Ev(moveToCorner, Success) \in Range(r.ctx.trace)
            THEN /\ Count(advanceCorner, r.ctx.trace) = 1
                 /\ r.ctx.self.waypoint_index = (w + 1) % NumWaypoints
            ELSE /\ Count(advanceCorner, r.ctx.trace) = 0
                 /\ r.ctx.self.waypoint_index = w

C11_WaypointAdvancesByOne ==
    /\ [](\A self \in Selves : C11_TickAdvancesOnArrival(self))
    /\ [](\A e \in DOMAIN entities : entities[e].waypoint_index \in 0..(NumWaypoints - 1))
    /\ [][\A e \in DOMAIN entities :
            entities'[e].waypoint_index # entities[e].waypoint_index =>
                /\ ticks' = ticks + 1
                /\ Ev(moveToCorner, Success) \in Range(last'[e].trace)
                /\ entities'[e].waypoint_index =
                       (entities[e].waypoint_index + 1) % NumWaypoints]_vars

C11_Witness ==
    \E e \in DOMAIN entities :
        /\ tree = DemoTree
        /\ Ev(threat, Failure) \in Range(prev[e].trace)
        /\ Ev(hungry, Failure) \in Range(prev[e].trace)
        /\ Ev(moveToCorner, Success) \in Range(prev[e].trace)
        /\ Ev(threat, Failure) \in Range(last[e].trace)
        /\ Ev(hungry, Failure) \in Range(last[e].trace)
        /\ Ev(moveToCorner, Success) \in Range(last[e].trace)
        /\ entities[e].waypoint_index = 1

\* C12: ticking never changes the tree: every step leaves every node's
\* fields and the brain's root as they were constructed, while the entity's
\* slots do change.
C12_TreeIsImmutable == [][tree' = tree /\ root' = root]_vars

C12_Witness ==
    \E e \in Entities : \E n \in NodesOfKind("MemorySequence") :
        /\ tree \in MemorySequenceTrees
        /\ ticks = MaxTicks
        /\ Slot(e, n) = 2

\* C19: in the demo tree slot 0 of every entity is 0 after every brain
\* tick, so every tick that reaches patrolSeq starts it at MoveToCorner:
\* only MoveToCorner can return Running, and it is child 0.
C19_DemoSlotIsZero ==
    /\ \A e \in DOMAIN entities : \A s \in 0..(NumSlots - 1) : entities[e].bt_mem[s] = 0
    /\ \A e \in DOMAIN entities :
          Evaluated(patrolSeq, last[e].trace) =>
              Kids(patrolSeq, last[e].trace)[1].node = moveToCorner
    /\ \A self \in Selves : \A in \in Inputs(tree) :
          LET r == EntityBrainTick(tree, root, Context(self), in)
          IN  /\ r.ctx.self.bt_mem[tree[patrolSeq].mem_slot] = 0
              /\ Evaluated(patrolSeq, r.ctx.trace) =>
                     Kids(patrolSeq, r.ctx.trace)[1].node = moveToCorner

C19_Witness ==
    \E e \in DOMAIN entities :
        /\ tree = DemoTree
        /\ Ev(moveToCorner, Running) \in Range(prev[e].trace)
        /\ Ev(patrolSeq, Running) \in Range(prev[e].trace)
        /\ Ev(moveToCorner, Success) \in Range(last[e].trace)
        /\ Ev(advanceCorner, Success) \in Range(last[e].trace)
        /\ Ev(patrolSeq, Success) \in Range(last[e].trace)
        /\ entities[e].bt_mem[0] = 0

\* C20: the demo's priorities.  (i) A tick in which ThreatNearby returns
\* Success returns Running from the root, leaves debug_state "FLEE" and
\* evaluates no node of the food or patrol branch.  (ii) A tick in which
\* ThreatNearby returns Failure and CheckHunger returns Success evaluates no
\* node of the patrol branch and leaves waypoint_index unchanged.
FoodBranch == {foodSeq, hungry, seekFood}
PatrolBranch == {patrolLoop, patrolSeq, moveToCorner, advanceCorner}

C20_TickKeepsPriority(self, r) ==
    /\ Ev(threat, Success) \in Range(r.ctx.trace) =>
          /\ r.status = Running
          /\ r.ctx.self.debug_state = "FLEE"
          /\ \A n \in FoodBranch \cup PatrolBranch : ~Evaluated(n, r.ctx.trace)
          /\ r.ctx.self.waypoint_index = self.waypoint_index
    /\ (Ev(threat, Failure) \in Range(r.ctx.trace) /\ Ev(hungry, Success) \in Range(r.ctx.trace)) =>
          /\ \A n \in PatrolBranch : ~Evaluated(n, r.ctx.trace)
          /\ r.ctx.self.waypoint_index = self.waypoint_index

C20_FleeThenFoodThenPatrol ==
    \A self \in Selves : \A in \in Inputs(tree) :
        C20_TickKeepsPriority(self, EntityBrainTick(tree, root, Context(self), in))

C20_Witness ==
    \E e \in DOMAIN entities :
        /\ tree = DemoTree
        /\ Ev(threat, Success) \in Range(prev[e].trace)
        /\ prev[e].status = Running
        /\ Ev(threat, Failure) \in Range(last[e].trace)
        /\ Ev(hungry, Success) \in Range(last[e].trace)
        /\ Ev(seekFood, Success) \in Range(last[e].trace)
        /\ last[e].status = Success

\* C13: the brain's tick returns exactly the Status its root returns for
\* that tick; a brain constructed without a root never returns a Status: its
\* first tick ends the process, with no node evaluated and no entity changed.
C13_BrainReturnsRootStatus ==
    /\ \A e \in Entities :
          last[e] # NoTick =>
              IF root = nullptr
              THEN /\ last[e].status \notin Status
                   /\ last[e].status = Aborted
                   /\ last[e].trace = <<>>
                   /\ ticks = 1
                   /\ \A b \in Entities : entities[b] = Entity /\ prev[b] = NoTick
                   /\ \A b \in Entities \ {e} : last[b] = NoTick
              ELSE /\ last[e].status \in Status
                   /\ last[e].trace # <<>>
                   /\ last[e].trace[Len(last[e].trace)] = Ev(root, last[e].status)
                   /\ Count(root, last[e].trace) = 1
    /\ (root # nullptr /\ ticks < MaxTicks) =>
          \A self \in Selves : \A in \in Inputs(tree) :
              EntityBrainTick(tree, root, Context(self), in) =
                  NodeTick(tree, root, Context(self), in)

C13_Witness ==
    \E e \in Entities :
        /\ root = nullptr
        /\ NumChildren(0) = 3
        /\ last[e].status = Aborted
        /\ ticks = 1

\* C14: a malformed tree (a Sequence, Selector or MemorySequence with an
\* empty child list, or a MemorySequence whose mem_slot is outside
\* 0..NumSlots-1) fails at construction or first use: no tick of it ever
\* yields a Status, and no entity is touched.  The code has no such check:
\* an empty Sequence returns Success, and TLC finds this violated.
Malformed(t) ==
    \E n \in DOMAIN t :
        \/ /\ t[n].kind \in {"Sequence", "Selector", "MemorySequence"}
           /\ t[n].children = <<>>
        \/ /\ t[n].kind = "MemorySequence"
           /\ t[n].mem_slot \notin 0..(NumSlots - 1)

C14_MalformedTreeNeverYieldsStatus ==
    Malformed(tree) =>
        \A e \in Entities :
            /\ last[e].status \notin Status
            /\ entities[e] = Entity

\* C15: when the ticks of different entities on the shared tree are
\* interleaved node evaluation by node evaluation, every finished tick has
\* the Status, evaluated the nodes and left the entity (slots and fields)
\* that the same tick run alone from the entity's state at its start gives,
\* so the outcome is that of running the ticks one after another in any
\* order; an entity with no tick in progress is not written.
C15_InterleavedAsSequential ==
    /\ [](\A e \in DOMAIN run :
            run[e].phase = "done" =>
                LET r == EntityBrainTick(tree, root, Context(run[e].start), run[e].in)
                IN  /\ r.status = run[e].ret
                    /\ r.ctx.trace = run[e].trace
                    /\ r.ctx.self = entities[e])
    /\ [][\A e \in DOMAIN run :
            entities'[e] # entities[e] => (run[e].phase = "busy" /\ run'[e] # run[e])]_vars

C15_Witness ==
    \E a, b \in DOMAIN run :
        /\ a # b
        /\ run[a].phase = "done"
        /\ run[b].phase = "done"
        /\ run[b].overlapped
        /\ Len(run[a].trace) > Len(run[b].trace)
        /\ Ev(moveToCorner, Success) \in Range(run[a].trace)
        /\ Ev(threat, Success) \in Range(run[b].trace)

\* C16: the slots of an entity start at 0 and slot s is written only by a
\* MemorySequence constructed with mem_slot = s.  In a tree with every kind
\* of node, a slot differs from 0 only if a MemorySequence owns it, and for
\* every node of the tree and every tick that can be taken, a slot changed by
\* ticking that node belongs to a MemorySequence evaluated in that tick.
Owners(s) == {m \in NodesOfKind("MemorySequence") : tree[m].mem_slot = s}

C16_NodeWritesOnlyOwnedSlots(n, self, in) ==
    LET r == NodeTick(tree, n, Context(self), in)
    IN  \A s \in 0..(NumSlots - 1) :
            r.ctx.self.bt_mem[s] # self.bt_mem[s] =>
                \E m \in Owners(s) : Evaluated(m, r.ctx.trace)

C16_SlotWrittenOnlyByOwner ==
    /\ \A e \in DOMAIN entities : last[e] = NoTick => entities[e].bt_mem = Entity.bt_mem
    /\ \A e \in DOMAIN entities : \A s \in 0..(NumSlots - 1) :
          entities[e].bt_mem[s] # 0 => Owners(s) # {}
    /\ ticks < MaxTicks =>
          \A n \in DOMAIN tree : \A self \in Selves : \A in \in Inputs(tree) :
              C16_NodeWritesOnlyOwnedSlots(n, self, in)

C16_Witness ==
    \E e \in DOMAIN entities : \E m \in NodesOfKind("MemorySequence") :
        /\ tree \in GuardedTrees
        /\ tree[root].kind = "Selector"
        /\ tree[m].mem_slot = NumSlots - 1
        /\ Ev(1, Failure) \in Range(last[e].trace)
        /\ Ev(root, Running) \in Range(last[e].trace)
        /\ entities[e].bt_mem[NumSlots - 1] = 1
        /\ \A s \in 0..(NumSlots - 2) : entities[e].bt_mem[s] = 0

\* C17: one tick of a MemorySequence whose slot holds i evaluates exactly
\* the children i..j, each once and in order, where j is the first index at
\* or after i whose child returns Running or Failure, or the last index if
\* none does; no child before i or after j is evaluated.  Checked for every
\* tick that can be taken in a reachable state.
ExpectedKids(n, i, in) ==
    LET stops == {k \in i..(NumChildren(n) - 1) : in[Child(n, k)] # Success}
        j == IF stops = {} THEN NumChildren(n) - 1
             ELSE CHOOSE k \in stops : \A m \in stops : k <= m
    IN  [m \in 1..(j - i + 1) |-> Ev(Child(n, i + m - 1), in[Child(n, i + m - 1)])]

C17_TicksFromSlotToFirstStop ==
    \A n \in NodesOfKind("MemorySequence") :
        (ticks < MaxTicks /\ OnlyLeafChildren(n)) =>
            \A self \in Selves : \A in \in Inputs(tree) :
                Kids(n, NodeTick(tree, n, Context(self), in).ctx.trace) =
                    ExpectedKids(n, self.bt_mem[tree[n].mem_slot], in)

C17_Witness ==
    \E e \in Entities : \E n \in NodesOfKind("MemorySequence") :
        /\ NumChildren(n) = 3
        /\ Kids(n, prev[e].trace) = <<Ev(Child(n, 0), Success), Ev(Child(n, 1), Running)>>
        /\ Kids(n, last[e].trace) = <<Ev(Child(n, 1), Success), Ev(Child(n, 2), Failure)>>
        /\ Kids(n, last[e].trace) = ExpectedKids(n, 1, Child(n, 1) :> Success @@ Child(n, 2) :> Failure)

\* C18: when no child ever returns Running a MemorySequence behaves as a
\* Sequence over the same children: the slot is 0 at every return, and every
\* tick evaluates the same children and returns the same status as
\* Sequence::tick would.
C18_MemorySequenceAsSequence ==
    /\ \A e \in Entities : entities[e].bt_mem = Entity.bt_mem
    /\ \A n \in NodesOfKind("MemorySequence") :
          \A self \in Selves : \A in \in NoRunningInputs(tree) :
              LET m == MemorySequenceTick(tree, n, Context(self), in)
                  q == SequenceTick(tree, n, Context(self), in)
              IN  /\ m.status = q.status
                  /\ m.ctx.trace = q.ctx.trace
                  /\ m.ctx.self.bt_mem[tree[n].mem_slot] = 0
                  /\ m.ctx.self = q.ctx.self

C18_Witness ==
    \E e \in Entities : \E n \in NodesOfKind("MemorySequence") :
        /\ NumChildren(n) = 3
        /\ tree[n].mem_slot = NumSlots - 1
        /\ Kids(n, prev[e].trace) = <<Ev(Child(n, 0), Success), Ev(Child(n, 1), Failure)>>
        /\ StatusOf(n, prev[e].trace) = Failure
        /\ Kids(n, last[e].trace) =
               <<Ev(Child(n, 0), Success), Ev(Child(n, 1), Success), Ev(Child(n, 2), Success)>>
        /\ StatusOf(n, last[e].trace) = Success
        /\ Slot(e, n) = 0

\* C21: every brain tick of a finite tree returns one Status after
\* evaluating each node at most once, so at most (number of parent-child
\* edges + 1) node evaluations, whatever value 0..MaxChildren the slot of a
\* MemorySequence holds when the tick starts (the second part depends on
\* the tree only and is evaluated in the initial states).
RECURSIVE SumLen(_, _)
SumLen(t, ns) ==
    IF ns = {} THEN 0
    ELSE LET n == CHOOSE x \in ns : TRUE
         IN  Len(t[n].children) + SumLen(t, ns \ {n})

Edges(t) == SumLen(t, DOMAIN t)

C21_Bounded(status, tr) ==
    /\ status \in Status
    /\ tr # <<>>
    /\ tr[Len(tr)] = Ev(root, status)
    /\ Len(tr) <= Edges(tree) + 1
    /\ \A n \in DOMAIN tree : Count(n, tr) <= 1

C21_TickTerminatesBounded ==
    /\ \A e \in DOMAIN entities :
          last[e] # NoTick => C21_Bounded(last[e].status, last[e].trace)
    /\ ticks = 0 =>
          \A m \in NodesOfKind("MemorySequence") : \A i \in 0..MaxChildren :
              \A in \in Inputs(tree) :
                  LET self == [Entity EXCEPT !.bt_mem[tree[m].mem_slot] = i]
                      r == EntityBrainTick(tree, root, Context(self), in)
                  IN  C21_Bounded(r.status, r.ctx.trace)

C21_Witness ==
    \E e \in DOMAIN entities :
        /\ tree \in GuardedTrees
        /\ tree[root].kind = "Sequence"
        /\ NumChildren(3) = 2
        /\ Len(last[e].trace) = Edges(tree) + 1
        /\ Ev(3, Success) \in Range(last[e].trace)
        /\ last[e].status = Running

\* C22: for a MemorySequence with n >= 1 children, after every tick of it
\* the slot is in 0..n-1, and it differs from 0 only when the entity's latest
\* tick returned Running with the child at that index Running; so
\* children[slot] is a child at the start of every tick.
C22_SlotIsValidIndex ==
    \A e \in Entities : \A n \in NodesOfKind("MemorySequence") :
        NumChildren(n) >= 1 =>
            /\ Slot(e, n) \in 0..(NumChildren(n) - 1)
            /\ Slot(e, n) # 0 =>
                  /\ Evaluated(n, last[e].trace)
                  /\ StatusOf(n, last[e].trace) = Running
                  /\ last[e].status = Running
                  /\ Ev(Child(n, Slot(e, n)), Running) \in Range(last[e].trace)
            /\ (Evaluated(n, last[e].trace) /\ StatusOf(n, last[e].trace) # Running) =>
                  Slot(e, n) = 0

C22_Witness ==
    \E e \in Entities : \E n \in NodesOfKind("MemorySequence") :
        /\ NumChildren(n) = 3
        /\ Evaluated(n, prev[e].trace)
        /\ StatusOf(n, prev[e].trace) = Failure
        /\ Slot(e, n) = NumChildren(n) - 1
        /\ Kids(n, last[e].trace) =
               <<Ev(Child(n, 0), Success), Ev(Child(n, 1), Success), Ev(Child(n, 2), Running)>>

\* C23: a MemorySequence that a tree tick does not reach (under a Selector
\* an earlier sibling returned Success or Running, under a Sequence Failure or
\* Running) keeps its slot, and the next tick that reaches it, however many
\* ticks later, starts at the child the slot names, not at child 0.
Unreaching(kind) == IF kind = "Selector" THEN {Success, Running} ELSE {Failure, Running}

\* The slot a tick of MemorySequence m with trace tr leaves behind.
SlotLeftBy(m, tr) ==
    IF StatusOf(m, tr) = Running
    THEN CHOOSE k \in 0..(NumChildren(m) - 1) : Ev(Child(m, k), Running) \in Range(tr)
    ELSE 0

C23_TickKeepsUnreachedSlot(m, self, in) ==
    LET r == EntityBrainTick(tree, root, Context(self), in)
        slot == tree[m].mem_slot
    IN  /\ ~Evaluated(m, r.ctx.trace) <=> in[Child(root, 0)] \in Unreaching(tree[root].kind)
        /\ ~Evaluated(m, r.ctx.trace) => r.ctx.self.bt_mem[slot] = self.bt_mem[slot]
        /\ Evaluated(m, r.ctx.trace) =>
              Kids(m, r.ctx.trace)[1].node = Child(m, self.bt_mem[slot])

C23_UnreachedSlotIsKept ==
    \A m \in NodesOfKind("MemorySequence") :
        /\ \A e \in DOMAIN entities :
              (/\ prev[e] # NoTick
               /\ Evaluated(m, prev[e].trace)
               /\ ~Evaluated(m, last[e].trace)) =>
                  Slot(e, m) = SlotLeftBy(m, prev[e].trace)
        /\ ticks < MaxTicks =>
              \A self \in Selves : \A in \in Inputs(tree) :
                  C23_TickKeepsUnreachedSlot(m, self, in)

C23_Witness ==
    \E e \in DOMAIN entities : \E m \in NodesOfKind("MemorySequence") :
        /\ tree \in GuardedTrees
        /\ tree[root].kind = "Selector"
        /\ NumChildren(m) = 2
        /\ ticks = 3
        /\ prev[e] = [status |-> Running, trace |-> <<Ev(Child(root, 0), Running), Ev(root, Running)>>]
        /\ Kids(m, last[e].trace) = <<Ev(Child(m, 1), Success)>>
        /\ StatusOf(m, last[e].trace) = Success

\* C24: the brain tick of the demo tree never returns Failure.  It returns
\* Success exactly in a tick where ThreatNearby returns Failure, CheckHunger
\* returns Success and DoSeekFood returns Success, and Running in every
\* other tick.
FoodReached(tr) ==
    /\ Ev(threat, Failure) \in Range(tr)
    /\ Ev(hungry, Success) \in Range(tr)
    /\ Ev(seekFood, Success) \in Range(tr)

C24_Result(status, tr) ==
    /\ status # Failure
    /\ status = Success <=> FoodReached(tr)
    /\ status = Running <=> ~FoodReached(tr)

C24_DemoNeverFails ==
    /\ \A e \in DOMAIN entities :
          last[e] # NoTick => C24_Result(last[e].status, last[e].trace)
    /\ ticks < MaxTicks =>
          \A self \in Selves : \A in \in Inputs(tree) :
              LET r == EntityBrainTick(tree, root, Context(self), in)
              IN  C24_Result(r.status, r.ctx.trace)

C24_Witness ==
    \E e \in DOMAIN entities :
        /\ tree = DemoTree
        /\ prev[e].status = Running
        /\ Ev(patrolSeq, Success) \in Range(prev[e].trace)
        /\ last[e].status = Success
        /\ FoodReached(last[e].trace)
        /\ entities[e].debug_state = "SEEK FOOD"

\* C25: in the tree of main.cpp an entity's waypoint_index changes at most
\* once: in the first tick where MoveToCorner returns Success it becomes
\* (index + 1) modulo 4 and the slot becomes 2; in every later tick the slot
\* stays 2, only AlwaysRunning is evaluated under patrolSeq, nothing of the
\* entity changes and the root returns Running.
AfterArrival == <<Ev(runForever, Running), Ev(mainPatrolSeq, Running), Ev(mainRoot, Running)>>

C25_Tick(self, in) ==
    LET r == EntityBrainTick(tree, root, Context(self), in)
    IN  /\ r.status = Running
        /\ self.bt_mem[0] = 2 => (r.ctx.trace = AfterArrival /\ r.ctx.self = self)
        /\ self.bt_mem[0] = 0 =>
              IF in[mainMoveToCorner] = "arrived"
              THEN /\ r.ctx.self.waypoint_index = (self.waypoint_index + 1) % NumWaypoints
                   /\ r.ctx.self.bt_mem[0] = 2
                   /\ Kids(mainPatrolSeq, r.ctx.trace) =
                          <<Ev(mainMoveToCorner, Success), Ev(mainAdvanceCorner, Success),
                            Ev(runForever, Running)>>
              ELSE /\ r.ctx.self.waypoint_index = self.waypoint_index
                   /\ r.ctx.self.bt_mem[0] = 0
                   /\ Kids(mainPatrolSeq, r.ctx.trace) = <<Ev(mainMoveToCorner, Running)>>

C25_WaypointAdvancesOnce ==
    /\ [](\A e \in DOMAIN entities :
            /\ \/ entities[e].bt_mem[0] = 0 /\ entities[e].waypoint_index = Entity.waypoint_index
               \/ /\ entities[e].bt_mem[0] = 2
                  /\ entities[e].waypoint_index = (Entity.waypoint_index + 1) % NumWaypoints
            /\ \A in \in Inputs(tree) : C25_Tick(entities[e], in)
            /\ (prev[e] # NoTick /\ Ev(mainMoveToCorner, Success) \in Range(prev[e].trace)) =>
                  last[e].trace = AfterArrival)
    /\ [][\A e \in DOMAIN entities :
            entities'[e].waypoint_index # entities[e].waypoint_index =>
                /\ entities[e].bt_mem[0] = 0
                /\ entities'[e].bt_mem[0] = 2
                /\ Ev(mainMoveToCorner, Success) \in Range(last'[e].trace)]_vars

C25_Witness ==
    \E e \in DOMAIN entities :
        /\ tree = MainTree
        /\ ticks = MaxMainTicks
        /\ prev[e].trace = AfterArrival
        /\ last[e].trace = AfterArrival
        /\ last[e].status = Running
        /\ entities[e].waypoint_index = 1
        /\ entities[e].bt_mem[0] = 2

=============================================================================
